---- MODULE Spec2Model ----
(***************************************************************************)
(* Model of the browser-side API client of GiftHarmony                     *)
(* (src/src/services/api.ts): the session token kept in memory and in      *)
(* localStorage, the header builder, the fifteen resource methods and the  *)
(* response normalisation of handleResponse.                               *)
(*                                                                         *)
(* JavaScript values are records [t, v]: t is the value's type and v its   *)
(* payload.  An object's payload is its set of <<key, value>> properties.  *)
(***************************************************************************)
EXTENDS Bags, FiniteSets, Integers, Sequences, TLC

VARIABLES
  localStorage,   \* the browser's key-value storage: a function key -> string
  token,          \* ApiService.token: a string value or null
  calls,          \* bag of resource-method calls that were invoked and not yet consumed
  lastSet,        \* history: the argument of the most recent setToken call, if any
  storage0        \* history: localStorage as it was when the client was constructed

vars == <<localStorage, token, calls, lastSet, storage0>>

----------------------------------------------------------------------------
(* Bounds of the model *)

MaxInFlight == 2   \* calls outstanding at once in the concurrent specification
MaxPage == 2       \* page numbers 0..MaxPage are passed to getProducts

----------------------------------------------------------------------------
(* JavaScript values *)

Undefined == [t |-> "undefined", v |-> ""]
Null == [t |-> "null", v |-> ""]
Str(s) == [t |-> "string", v |-> s]
Num(n) == [t |-> "number", v |-> n]
Obj(props) == [t |-> "object", v |-> props]

\* history marker: setToken was never called
NoCall == [t |-> "nocall", v |-> ""]

\* ToBoolean, as applied by `if (x)` and `x || y`
Truthy(x) ==
  CASE x.t = "undefined" -> FALSE
    [] x.t = "null" -> FALSE
    [] x.t = "string" -> x.v # ""
    [] x.t = "number" -> x.v # 0
    [] OTHER -> TRUE

IsNullish(x) == x.t \in {"undefined", "null"}

\* property read o.k on a non-nullish value (a primitive has no own `message`)
Get(o, k) ==
  IF o.t = "object" /\ \E p \in o.v : p[1] = k
    THEN (CHOOSE p \in o.v : p[1] = k)[2]
    ELSE Undefined

\* optional chaining o?.k
OptGet(o, k) == IF IsNullish(o) THEN Undefined ELSE Get(o, k)

\* x || y
Or(x, y) == IF Truthy(x) THEN x ELSE y

\* one property of an object literal; an undefined value is left out
Field(k, x) == IF x.t = "undefined" THEN {} ELSE {<<k, x>>}

DigitChar(d) ==
  CASE d = 0 -> "0" [] d = 1 -> "1" [] d = 2 -> "2" [] d = 3 -> "3"
    [] d = 4 -> "4" [] d = 5 -> "5" [] d = 6 -> "6" [] d = 7 -> "7"
    [] d = 8 -> "8" [] d = 9 -> "9"

RECURSIVE NatToString(_)
NatToString(n) ==
  IF n < 10 THEN DigitChar(n)
  ELSE NatToString(n \div 10) \o DigitChar(n % 10)

\* Number.prototype.toString() and template interpolation of an integer
NumToString(n) == IF n < 0 THEN "-" \o NatToString(0 - n) ELSE NatToString(n)

\* String(x), as applied by template literals and by new Error(x)
JSString(x) ==
  CASE x.t = "string" -> x.v
    [] x.t = "number" -> NumToString(x.v)
    [] x.t = "null" -> "null"
    [] x.t = "undefined" -> "undefined"
    [] OTHER -> "[object Object]"

----------------------------------------------------------------------------
(* localStorage *)

AUTH_KEY == "auth_token"

EmptyStorage == [k \in {} |-> ""]

getItem(st, k) == IF k \in DOMAIN st THEN Str(st[k]) ELSE Null

setItem(st, k, s) == [x \in DOMAIN st \cup {k} |-> IF x = k THEN s ELSE st[x]]

removeItem(st, k) == [x \in DOMAIN st \ {k} |-> st[x]]

----------------------------------------------------------------------------
(* Construction and the header builder *)

VITE_API_URL == Undefined   \* the environment leaves the variable unset

API_BASE_URL == JSString(Or(VITE_API_URL, Str("http://localhost:5000/api")))

baseURL == API_BASE_URL

\* the token a client constructed over storage st starts with
constructor(st) == getItem(st, AUTH_KEY)

ContentTypeOnly == ("Content-Type" :> "application/json")

\* a header builder that tests the token against null only
getHeaders_nonNull(tok) ==
  IF tok.t # "null"
    THEN ContentTypeOnly @@ ("Authorization" :> ("Bearer " \o JSString(tok)))
    ELSE ContentTypeOnly

getHeaders(tok) ==
  IF Truthy(tok)
    THEN ContentTypeOnly @@ ("Authorization" :> ("Bearer " \o JSString(tok)))
    ELSE ContentTypeOnly

HasAuth(h) == "Authorization" \in DOMAIN h

----------------------------------------------------------------------------
(* Inputs *)

TokenStrings == {"", "abc", "xyz"}
TokenArgs == {Null} \cup {Str(s) : s \in TokenStrings}
Storages == {EmptyStorage} \cup {(AUTH_KEY :> s) : s \in TokenStrings}

ProductIds == {1, 999}
QuantityArgs == {Undefined, Num(2)}

SampleUser ==
  Obj({<<"email", Str("a@b.c")>>, <<"password", Str("pw")>>,
       <<"first_name", Str("Ann")>>, <<"last_name", Str("Lee")>>})

SampleCredentials == Obj({<<"email", Str("a@b.c")>>, <<"password", Str("pw")>>})

\* the filters getProducts may be given: each one absent, or one of these values
CategoryArgs == {Undefined, Str(""), Str("gifts")}
SearchArgs == {Undefined, Str(""), Str("gift box")}
PageArgs == {Undefined} \cup {Num(n) : n \in 0..MaxPage}
LimitArgs == {Undefined, Num(0), Num(10)}

AllProductQueries ==
  {Undefined} \cup
  {Obj(Field("category", c) \cup Field("search", s) \cup Field("page", p) \cup Field("limit", l)) :
     c \in CategoryArgs, s \in SearchArgs, p \in PageArgs, l \in LimitArgs}

SomeProductQueries ==
  {Undefined, Obj({}),
   Obj({<<"page", Num(2)>>, <<"limit", Num(10)>>}),
   Obj({<<"category", Str("gifts")>>, <<"search", Str("gift box")>>}),
   Obj({<<"category", Str("")>>, <<"page", Num(0)>>})}

\* what the transport may answer
Statuses == {200, 401, 404, 500}
Bodies ==
  {"", "<html>", "null", "{}", "{\"message\":\"\"}", "{\"message\":\"Not found\"}",
   "{\"id\":1,\"name\":\"Mug\"}", "{\"token\":\"abc\"}", "5"}

----------------------------------------------------------------------------
(* JSON *)

Quote(s) == "\"" \o s \o "\""

\* JSON.parse on the body texts of the model
IsJSON(text) ==
  text \in {"null", "{}", "{\"message\":\"\"}", "{\"message\":\"Not found\"}",
            "{\"id\":1,\"name\":\"Mug\"}", "{\"token\":\"abc\"}", "5"}

JSONparse(text) ==
  CASE text = "null" -> Null
    [] text = "{}" -> Obj({})
    [] text = "{\"message\":\"\"}" -> Obj({<<"message", Str("")>>})
    [] text = "{\"message\":\"Not found\"}" -> Obj({<<"message", Str("Not found")>>})
    [] text = "{\"id\":1,\"name\":\"Mug\"}" -> Obj({<<"id", Num(1)>>, <<"name", Str("Mug")>>})
    [] text = "{\"token\":\"abc\"}" -> Obj({<<"token", Str("abc")>>})
    [] text = "5" -> Num(5)

\* JSON.stringify of a string or an integer
StringifyScalar(x) == IF x.t = "string" THEN Quote(x.v) ELSE JSString(x)

\* JSON.stringify of an object whose properties, in order, are keys
RECURSIVE StringifyProps(_, _)
StringifyProps(o, keys) ==
  IF keys = <<>> THEN ""
  ELSE Quote(Head(keys)) \o ":" \o StringifyScalar(Get(o, Head(keys)))
       \o (IF Len(keys) > 1 THEN "," ELSE "") \o StringifyProps(o, Tail(keys))

Stringify(o, keys) == "{" \o StringifyProps(o, keys) \o "}"

----------------------------------------------------------------------------
(* Outcomes of a call *)

NoResponse == [status |-> 0, body |-> ""]
NoError == [name |-> "", message |-> ""]

Pending == [kind |-> "pending", value |-> Undefined, error |-> NoError]
Returned(x) == [kind |-> "returned", value |-> x, error |-> NoError]
Thrown(n, m) == [kind |-> "thrown", value |-> Undefined, error |-> [name |-> n, message |-> m]]

\* Response.ok
ok(status) == status \in 200..299

\* the message synthesised for a non-ok status
Fallback(status) == "HTTP error! status: " \o NumToString(status)

\* the errors raised by the runtime, not by this client (messages in V8's wording;
\* only their names are the same on every engine)
NullReadError == Thrown("TypeError", "Cannot read properties of null (reading 'message')")
ParseError == Thrown("SyntaxError", "Unexpected end of JSON input")
NetworkError == Thrown("TypeError", "Failed to fetch")

\* a handleResponse without the test of response.ok
handleResponse_noThrow(response) ==
  IF IsJSON(response.body) THEN Returned(JSONparse(response.body)) ELSE ParseError

\* a handleResponse that throws new Error(error.message), without the fallback
handleResponse_noFallback(response) ==
  IF ~ ok(response.status)
    THEN LET error == IF IsJSON(response.body)
                        THEN JSONparse(response.body)
                        ELSE Obj({<<"message", Str(Fallback(response.status))>>})
         IN  IF IsNullish(error)
               THEN NullReadError
               ELSE Thrown("Error", JSString(Get(error, "message")))
    ELSE IF IsJSON(response.body)
           THEN Returned(JSONparse(response.body))
           ELSE ParseError

\* the outcome of handleResponse once the body has been read
handleResponse(response) ==
  IF ~ ok(response.status)
    THEN LET error == IF IsJSON(response.body)
                        THEN JSONparse(response.body)
                        ELSE Obj({<<"message", Str(Fallback(response.status))>>})
         IN  IF IsNullish(error)
               THEN NullReadError
               ELSE Thrown("Error",
                           JSString(Or(Get(error, "message"), Str(Fallback(response.status)))))
    ELSE IF IsJSON(response.body)
           THEN Returned(JSONparse(response.body))
           ELSE ParseError

----------------------------------------------------------------------------
(* URLSearchParams: a list of <<name, value>> pairs *)

append(sp, name, value) == Append(sp, <<name, value>>)

\* application/x-www-form-urlencoded form of the strings of the model
FormEncode(s) == IF s = "gift box" THEN "gift+box" ELSE s

RECURSIVE serialize(_)
serialize(sp) ==
  IF sp = <<>> THEN ""
  ELSE FormEncode(Head(sp)[1]) \o "=" \o FormEncode(Head(sp)[2])
       \o (IF Len(sp) > 1 THEN "&" ELSE "") \o serialize(Tail(sp))

\* an append guarded by x !== undefined
appendIf_defined(sp, name, x) ==
  IF x.t # "undefined" THEN append(sp, name, JSString(x)) ELSE sp

\* if (x) searchParams.append(name, x) for a string, x.toString() for a number
appendIf(sp, name, x) ==
  IF Truthy(x) THEN append(sp, name, JSString(x)) ELSE sp

\* the searchParams getProducts(params) builds
productSearchParams(params) ==
  LET sp1 == appendIf(<<>>, "category", OptGet(params, "category"))
      sp2 == appendIf(sp1, "search", OptGet(params, "search"))
      sp3 == appendIf(sp2, "page", OptGet(params, "page"))
  IN  appendIf(sp3, "limit", OptGet(params, "limit"))

----------------------------------------------------------------------------
(* Calls *)

\* fetch(url, {method, headers: this.getHeaders(), body}): the call is issued,
\* with the headers of the token held now, and the method suspends on it
Request(name, args, url, verb, body, sp) ==
  [method |-> name, args |-> args, url |-> url, verb |-> verb,
   headers |-> getHeaders(token), body |-> body, searchParams |-> sp,
   tokenAtInvoke |-> token, fetches |-> 1, pc |-> "fetch",
   response |-> NoResponse, outcome |-> Pending]

Invoke(cap, call) ==
  /\ BagCardinality(calls) < cap
  /\ calls' = calls (+) SetToBag({call})
  /\ UNCHANGED <<localStorage, token, lastSet, storage0>>

Replace(c, d) == calls' = (calls (-) SetToBag({c})) (+) SetToBag({d})

Active == BagToSet(calls)

----------------------------------------------------------------------------
(* setToken *)

\* a setToken that never removes the storage entry
setToken_keepsEntry(t) ==
  /\ token' = t
  /\ localStorage' = IF Truthy(t) THEN setItem(localStorage, AUTH_KEY, JSString(t))
                     ELSE localStorage
  /\ lastSet' = t
  /\ UNCHANGED <<calls, storage0>>

\* a setToken that assigns this.token inside the if branch only
setToken_storageOnly(t) ==
  /\ token' = IF Truthy(t) THEN t ELSE token
  /\ localStorage' = IF Truthy(t) THEN setItem(localStorage, AUTH_KEY, JSString(t))
                     ELSE removeItem(localStorage, AUTH_KEY)
  /\ lastSet' = t
  /\ UNCHANGED <<calls, storage0>>

\* a setToken that also rewrites the headers of the calls in flight
setToken_rebuilds(t) ==
  /\ token' = t
  /\ localStorage' = IF Truthy(t) THEN setItem(localStorage, AUTH_KEY, JSString(t))
                     ELSE removeItem(localStorage, AUTH_KEY)
  /\ lastSet' = t
  /\ calls' = SetToBag({[c EXCEPT !.headers = getHeaders(t)] : c \in Active})
  /\ UNCHANGED storage0

setToken(t) ==
  /\ token' = t
  /\ localStorage' = IF Truthy(t) THEN setItem(localStorage, AUTH_KEY, JSString(t))
                     ELSE removeItem(localStorage, AUTH_KEY)
  /\ lastSet' = t
  /\ UNCHANGED <<calls, storage0>>

----------------------------------------------------------------------------
(* Resource methods: each runs up to its fetch and suspends *)

register(cap, userData) ==
  Invoke(cap, Request("register", <<userData>>, baseURL \o "/auth/register", "POST",
         Str(Stringify(userData, <<"email", "password", "first_name", "last_name">>)), <<>>))

login(cap, credentials) ==
  Invoke(cap, Request("login", <<credentials>>, baseURL \o "/auth/login", "POST",
         Str(Stringify(credentials, <<"email", "password">>)), <<>>))

getCurrentUser(cap) ==
  Invoke(cap, Request("getCurrentUser", <<>>, baseURL \o "/auth/me", "GET", Undefined, <<>>))

getProducts(cap, params) ==
  LET searchParams == productSearchParams(params)
      url == baseURL \o "/products?" \o serialize(searchParams)
  IN  Invoke(cap, Request("getProducts", <<params>>, url, "GET", Undefined, searchParams))

getProduct(cap, id) ==
  Invoke(cap, Request("getProduct", <<Num(id)>>,
         baseURL \o "/products/" \o NumToString(id), "GET", Undefined, <<>>))

getCart(cap) ==
  Invoke(cap, Request("getCart", <<>>, baseURL \o "/cart", "GET", Undefined, <<>>))

addToCart(cap, productId, quantityArg) ==
  LET quantity == IF quantityArg.t = "undefined" THEN Num(1) ELSE quantityArg
      data == Obj({<<"product_id", Num(productId)>>, <<"quantity", quantity>>})
  IN  Invoke(cap, Request("addToCart", <<Num(productId), quantityArg>>, baseURL \o "/cart",
             "POST", Str(Stringify(data, <<"product_id", "quantity">>)), <<>>))

updateCartItem(cap, id, quantity) ==
  Invoke(cap, Request("updateCartItem", <<Num(id), quantity>>,
         baseURL \o "/cart/" \o NumToString(id), "PUT",
         Str(Stringify(Obj({<<"quantity", quantity>>}), <<"quantity">>)), <<>>))

removeFromCart(cap, id) ==
  Invoke(cap, Request("removeFromCart", <<Num(id)>>,
         baseURL \o "/cart/" \o NumToString(id), "DELETE", Undefined, <<>>))

clearCart(cap) ==
  Invoke(cap, Request("clearCart", <<>>, baseURL \o "/cart", "DELETE", Undefined, <<>>))

getWishlist(cap) ==
  Invoke(cap, Request("getWishlist", <<>>, baseURL \o "/wishlist", "GET", Undefined, <<>>))

addToWishlist(cap, productId) ==
  Invoke(cap, Request("addToWishlist", <<Num(productId)>>, baseURL \o "/wishlist", "POST",
         Str(Stringify(Obj({<<"product_id", Num(productId)>>}), <<"product_id">>)), <<>>))

removeFromWishlistByProduct(cap, productId) ==
  Invoke(cap, Request("removeFromWishlistByProduct", <<Num(productId)>>,
         baseURL \o "/wishlist/product/" \o NumToString(productId), "DELETE", Undefined, <<>>))

getOrders(cap) ==
  Invoke(cap, Request("getOrders", <<>>, baseURL \o "/orders", "GET", Undefined, <<>>))

\* the order {items: [{product_id, quantity: 1}], shipping_address: "1 Main St"}
createOrder(cap, productId) ==
  LET item == Obj({<<"product_id", Num(productId)>>, <<"quantity", Num(1)>>})
      text == "{\"items\":[" \o Stringify(item, <<"product_id", "quantity">>)
              \o "],\"shipping_address\":\"1 Main St\"}"
  IN  Invoke(cap, Request("createOrder", <<item, Str("1 Main St")>>, baseURL \o "/orders",
             "POST", Str(text), <<>>))

----------------------------------------------------------------------------
(* The transport answers, and the method resumes *)

\* a faulty client that fetches again after a server error
fetchFulfilled_retry(c, status, body) ==
  /\ c \in Active
  /\ c.pc = "fetch"
  /\ IF status >= 500 /\ c.fetches < 2
       THEN Replace(c, [c EXCEPT !.fetches = c.fetches + 1])
       ELSE Replace(c, [c EXCEPT !.pc = "json", !.response = [status |-> status, body |-> body]])
  /\ UNCHANGED <<localStorage, token, lastSet, storage0>>

\* fetch resolves with a Response; handleResponse starts and suspends on
\* response.json()
fetchFulfilled(c, status, body) ==
  /\ c \in Active
  /\ c.pc = "fetch"
  /\ Replace(c, [c EXCEPT !.pc = "json", !.response = [status |-> status, body |-> body]])
  /\ UNCHANGED <<localStorage, token, lastSet, storage0>>

\* fetch rejects (the server cannot be reached); the method throws
fetchRejected(c) ==
  /\ c \in Active
  /\ c.pc = "fetch"
  /\ Replace(c, [c EXCEPT !.pc = "settled", !.outcome = NetworkError])
  /\ UNCHANGED <<localStorage, token, lastSet, storage0>>

\* a faulty client whose login and register keep the token the server sent
jsonSettled_storesToken(c) ==
  LET out == handleResponse(c.response)
      t == IF out.kind = "returned" THEN OptGet(out.value, "token") ELSE Undefined
  IN  /\ c \in Active
      /\ c.pc = "json"
      /\ Replace(c, [c EXCEPT !.pc = "settled", !.outcome = out])
      /\ IF c.method \in {"login", "register"} /\ t.t = "string"
           THEN /\ token' = t
                /\ localStorage' = setItem(localStorage, AUTH_KEY, t.v)
           ELSE UNCHANGED <<localStorage, token>>
      /\ UNCHANGED <<lastSet, storage0>>

\* response.json() settles; handleResponse returns or throws, and so does the method
jsonSettled(c) ==
  /\ c \in Active
  /\ c.pc = "json"
  /\ Replace(c, [c EXCEPT !.pc = "settled", !.outcome = handleResponse(c.response)])
  /\ UNCHANGED <<localStorage, token, lastSet, storage0>>

\* the caller takes the settled result
awaited(c) ==
  /\ c \in Active
  /\ c.pc = "settled"
  /\ calls' = calls (-) SetToBag({c})
  /\ UNCHANGED <<localStorage, token, lastSet, storage0>>

----------------------------------------------------------------------------
(* Specifications *)

\* the client as the module exports it, over any storage content
Init ==
  /\ localStorage \in Storages
  /\ token = constructor(localStorage)
  /\ calls = EmptyBag
  /\ lastSet = NoCall
  /\ storage0 = localStorage

\* a caller that awaits each call before the next; setToken at any point
Next ==
  \/ \E t \in TokenArgs : setToken(t)
  \/ register(1, SampleUser)
  \/ login(1, SampleCredentials)
  \/ getCurrentUser(1)
  \/ \E params \in SomeProductQueries : getProducts(1, params)
  \/ \E id \in ProductIds : getProduct(1, id)
  \/ getCart(1)
  \/ \E id \in ProductIds, q \in QuantityArgs : addToCart(1, id, q)
  \/ \E id \in ProductIds : updateCartItem(1, id, Num(2))
  \/ \E id \in ProductIds : removeFromCart(1, id)
  \/ clearCart(1)
  \/ getWishlist(1)
  \/ \E id \in ProductIds : addToWishlist(1, id)
  \/ \E id \in ProductIds : removeFromWishlistByProduct(1, id)
  \/ getOrders(1)
  \/ \E id \in ProductIds : createOrder(1, id)
  \/ \E c \in Active, status \in Statuses, body \in Bodies : fetchFulfilled(c, status, body)
  \/ \E c \in Active : fetchRejected(c)
  \/ \E c \in Active : jsonSettled(c)
  \/ \E c \in Active : awaited(c)

Spec == Init /\ [][Next]_vars

\* several calls in flight at once, setToken between any two steps
InitConc ==
  /\ localStorage \in {EmptyStorage, (AUTH_KEY :> "abc")}
  /\ token = constructor(localStorage)
  /\ calls = EmptyBag
  /\ lastSet = NoCall
  /\ storage0 = localStorage

NextConc ==
  \/ \E t \in {Null, Str("xyz")} : setToken(t)
  \/ login(MaxInFlight, SampleCredentials)
  \/ getCurrentUser(MaxInFlight)
  \/ \E c \in Active, status \in {200, 401}, body \in {"", "{\"token\":\"abc\"}"} :
       fetchFulfilled(c, status, body)
  \/ \E c \in Active : fetchRejected(c)
  \/ \E c \in Active : jsonSettled(c)
  \/ \E c \in Active : awaited(c)

SpecConc == InitConc /\ [][NextConc]_vars

\* getProducts over every combination of filters
NextQuery ==
  \/ \E t \in TokenArgs : setToken(t)
  \/ \E params \in AllProductQueries : getProducts(1, params)
  \/ \E c \in Active : fetchRejected(c)
  \/ \E c \in Active : awaited(c)

SpecQuery == InitConc /\ [][NextQuery]_vars

----------------------------------------------------------------------------
(* Properties *)

AuthValue(h) == IF HasAuth(h) THEN h["Authorization"] ELSE ""

StoredToken == getItem(localStorage, AUTH_KEY)

Settled == {c \in Active : c.pc = "settled"}

\* C1, as stated: the headers carry "Bearer t" iff the last setToken passed a
\* non-null t (the empty string included) or, with no setToken so far, iff the
\* storage held any value under auth_token at construction
C1_Original ==
  LET h == getHeaders(token)
  IN  /\ lastSet # NoCall =>
           /\ HasAuth(h) <=> lastSet.t # "null"
           /\ lastSet.t # "null" => AuthValue(h) = "Bearer " \o lastSet.v
      /\ lastSet = NoCall => (HasAuth(h) <=> AUTH_KEY \in DOMAIN storage0)

\* C1, amended: the headers carry "Bearer t" iff the last setToken passed a
\* non-null and non-empty t or, with no setToken so far, iff the storage held a
\* non-empty value t under auth_token at construction
C1_Amended ==
  LET h == getHeaders(token)
      held == IF lastSet # NoCall THEN lastSet ELSE getItem(storage0, AUTH_KEY)
  IN  /\ HasAuth(h) <=> (held.t = "string" /\ held.v # "")
      /\ HasAuth(h) => AuthValue(h) = "Bearer " \o held.v
      /\ h["Content-Type"] = "application/json"

C1_Witness ==
  /\ lastSet = Str("")
  /\ AUTH_KEY \in DOMAIN storage0
  /\ ~ HasAuth(getHeaders(token))

\* C2: once setToken(null) was the last setToken, the auth_token entry is absent,
\* and a client constructed from the storage holds no token and sends no
\* Authorization header
C2_Theorem ==
  lastSet = Null =>
    /\ AUTH_KEY \notin DOMAIN localStorage
    /\ constructor(localStorage) = Null
    /\ ~ HasAuth(getHeaders(constructor(localStorage)))

C2_Witness ==
  /\ lastSet = Null
  /\ AUTH_KEY \in DOMAIN storage0
  /\ AUTH_KEY \notin DOMAIN localStorage
  /\ Settled # {}

\* C3, as stated: a non-ok response makes the call throw, with the body's message
\* field as the message whenever the body parses as JSON, and the status
\* fallback whenever it does not
C3_Original ==
  \A c \in Settled :
    (c.response # NoResponse /\ ~ ok(c.response.status)) =>
      /\ c.outcome.kind = "thrown"
      /\ IF IsJSON(c.response.body)
           THEN LET m == OptGet(JSONparse(c.response.body), "message")
                IN  m.t = "string" /\ c.outcome.error.message = m.v
           ELSE c.outcome.error.message = Fallback(c.response.status)

\* C3, amended: a non-ok response makes the call throw and never return; the
\* message is the body's message field when the body parses to a non-null value
\* with a non-empty string message, the status fallback when the body does not
\* parse or parses to a non-null value whose message is missing or empty, and
\* the runtime's TypeError when the body parses to null
C3_Amended ==
  \A c \in Settled :
    (c.response # NoResponse /\ ~ ok(c.response.status)) =>
      /\ c.outcome.kind = "thrown"
      /\ c.outcome.value = Undefined
      /\ IF ~ IsJSON(c.response.body)
           THEN c.outcome.error = [name |-> "Error", message |-> Fallback(c.response.status)]
           ELSE LET parsed == JSONparse(c.response.body)
                    m == OptGet(parsed, "message")
                IN  IF parsed = Null
                      THEN c.outcome.error.name = "TypeError"
                      ELSE IF m.t = "string" /\ m.v # ""
                             THEN c.outcome.error = [name |-> "Error", message |-> m.v]
                             ELSE c.outcome.error =
                                    [name |-> "Error", message |-> Fallback(c.response.status)]

C3_Witness ==
  \E c \in Settled :
    /\ c.method = "getProduct"
    /\ c.args = <<Num(999)>>
    /\ c.response = [status |-> 404, body |-> "{\"message\":\"Not found\"}"]
    /\ c.outcome = Thrown("Error", "Not found")

----------------------------------------------------------------------------

KeysOf(sp) == {sp[i][1] : i \in DOMAIN sp}

FilterNames == <<"category", "search", "page", "limit">>

\* the entries expected for the filters of names ks: the truthy ones, in order
RECURSIVE Expected(_, _)
Expected(params, ks) ==
  IF ks = <<>> THEN <<>>
  ELSE LET x == OptGet(params, Head(ks))
       IN  (IF Truthy(x) THEN << <<Head(ks), JSString(x)>> >> ELSE <<>>)
           \o Expected(params, Tail(ks))

Supplied(x) == x.t # "undefined"

ProductCalls == {c \in Active : c.method = "getProducts"}

\* C4, as stated: the query of getProducts has an entry for a filter iff the
\* filter was supplied, 0 and the empty string included
C4_Original ==
  \A c \in ProductCalls :
    \A k \in {"category", "search", "page", "limit"} :
      k \in KeysOf(c.searchParams) <=> Supplied(OptGet(c.args[1], k))

\* C4, amended: the query of getProducts has an entry for a filter iff the filter
\* was supplied with a non-empty string or a non-zero number; the entries come in
\* the order category, search, page, limit, one each, numbers in decimal form,
\* and the query is empty when no filter passes
C4_Amended ==
  \A c \in ProductCalls :
    LET params == c.args[1]
    IN  /\ \A k \in {"category", "search", "page", "limit"} :
             k \in KeysOf(c.searchParams) <=> Truthy(OptGet(params, k))
        /\ c.searchParams = Expected(params, FilterNames)
        /\ c.url = baseURL \o "/products?" \o serialize(c.searchParams)
        /\ params = Obj({<<"page", Num(2)>>, <<"limit", Num(10)>>}) =>
             /\ c.searchParams = << <<"page", "2">>, <<"limit", "10">> >>
             /\ c.url = "http://localhost:5000/api/products?page=2&limit=10"
        /\ params \in {Undefined, Obj({})} =>
             /\ c.searchParams = <<>>
             /\ c.url = "http://localhost:5000/api/products?"

C4_Witness ==
  \E c \in ProductCalls :
    /\ c.args[1] = Obj({<<"search", Str("")>>, <<"page", Num(0)>>, <<"limit", Num(10)>>})
    /\ c.url = "http://localhost:5000/api/products?limit=10"

----------------------------------------------------------------------------

\* C5: a settled call either returned the parsed body unchanged, the status
\* being ok and the body JSON, or threw, the status being non-ok, the body
\* unparseable or the transport having failed; an unsettled call has no outcome
C5_Theorem ==
  \A c \in Active :
    IF c.pc = "settled"
      THEN \/ /\ c.outcome.kind = "returned"
              /\ c.response # NoResponse
              /\ ok(c.response.status)
              /\ IsJSON(c.response.body)
              /\ c.outcome.value = JSONparse(c.response.body)
           \/ /\ c.outcome.kind = "thrown"
              /\ c.outcome.value = Undefined
              /\ \/ c.response = NoResponse
                 \/ ~ ok(c.response.status)
                 \/ ~ IsJSON(c.response.body)
      ELSE c.outcome = Pending

C5_Witness ==
  \E c \in Settled :
    /\ c.method = "getProduct"
    /\ c.args = <<Num(1)>>
    /\ c.response = [status |-> 200, body |-> "{\"id\":1,\"name\":\"Mug\"}"]
    /\ c.outcome = Returned(Obj({<<"id", Num(1)>>, <<"name", Str("Mug")>>}))

\* C6, as stated: after setToken(t) with a non-null t, the empty string included,
\* the storage entry and the token in memory are both t; after setToken(null)
\* both are absent; so memory and storage agree after any setToken
C6_Original ==
  lastSet # NoCall =>
    /\ IF lastSet.t # "null"
         THEN StoredToken = lastSet /\ token = lastSet
         ELSE AUTH_KEY \notin DOMAIN localStorage /\ token = Null
    /\ StoredToken = token

\* C6, amended: after setToken(t) with a non-null and non-empty t, the storage
\* entry and the token in memory are both t; after setToken(null) or
\* setToken("") the entry is erased and the token in memory is the argument; so
\* memory and storage hold the same string whenever either holds a non-empty one
C6_Amended ==
  /\ lastSet # NoCall =>
       IF Truthy(lastSet)
         THEN StoredToken = lastSet /\ token = lastSet
         ELSE AUTH_KEY \notin DOMAIN localStorage /\ token = lastSet
  /\ (Truthy(token) \/ Truthy(StoredToken)) => StoredToken = token

C6_Witness ==
  /\ lastSet = Str("")
  /\ token = Str("")
  /\ AUTH_KEY \notin DOMAIN localStorage
  /\ AUTH_KEY \in DOMAIN storage0

\* C7: every call has issued exactly one fetch, while it is in flight and once
\* it has settled, whatever its outcome
C7_Theorem == \A c \in Active : c.fetches = 1

C7_Witness ==
  \E c \in Settled :
    /\ c.response.status = 500
    /\ c.outcome.kind = "thrown"
    /\ c.fetches = 1

\* C8: the headers of every call are those of the token held when the method
\* was invoked, whatever setToken did since
C8_Theorem ==
  \A c \in Active :
    /\ c.headers = getHeaders(c.tokenAtInvoke)
    /\ Truthy(c.tokenAtInvoke) => AuthValue(c.headers) = "Bearer " \o c.tokenAtInvoke.v

C8_Witness ==
  \E c \in Active, d \in Active :
    /\ c.pc = "fetch" /\ d.pc = "fetch"
    /\ AuthValue(c.headers) = "Bearer abc"
    /\ AuthValue(d.headers) = "Bearer xyz"
    /\ token = Null

\* C9: a step that changes the token in memory or the storage is a setToken step
C9_Theorem ==
  [][(\E t \in TokenArgs : setToken(t)) \/ UNCHANGED <<token, localStorage>>]_vars

C9_Witness ==
  \E c \in Settled :
    /\ c.method = "login"
    /\ c.outcome = Returned(Obj({<<"token", Str("abc")>>}))
    /\ token = Null
    /\ localStorage = EmptyStorage

\* C10: a client constructed from the storage as it is now would build the
\* headers the live client builds
C10_Theorem == getHeaders(constructor(localStorage)) = getHeaders(token)

C10_Witness ==
  /\ token = Str("")
  /\ constructor(localStorage) = Null
  /\ Settled # {}

====
